---------------------------- MODULE Spec2Model ----------------------------
(***************************************************************************)
(* A model of the VEML7700 ambient-light-sensor controller: the register   *)
(* codec of cmd_defs.py, the bus command of i2c_cmd.py and the controller  *)
(* object of controller.py (setters, sampling, threshold polling and the   *)
(* auto-ranging loop calibrate).                                           *)
(*                                                                         *)
(* Number representation.  Python numbers that are not integers are kept   *)
(* as fixed-point integers:                                                *)
(*   - a gain x is represented by 8 * x     (1/8 -> 1, 1/4 -> 2, 1/2 -> 4, *)
(*     1 -> 8, 2 -> 16);                                                   *)
(*   - an integration time x is represented by 1000 * x (25 -> 25000 and   *)
(*     the seconds alias 0.025 -> 25), see ms(_).                          *)
(* Enum members are represented by their .value (the bit code).            *)
(***************************************************************************)
EXTENDS Integers, Sequences, FiniteSets

VARIABLES
    _gain,               \* ALSGain member (code)
    _integration_time,   \* ALSIntegrationTime member (code)
    _persistence,        \* ALSPersistence member (code)
    _interrupt,          \* ALSInterrupt member (code)
    _shutdown,           \* ALSShutdown member (code)
    _power_saving_mode,  \* PowerSavingMode member (code)
    _power_saving,       \* PowerSavingToggle member (code)
    _low_threshold,      \* None or the value last assigned
    _high_threshold,     \* None or the value last assigned
    _als_output,         \* None or the last ALS word read
    _white_output,       \* None or the last white-channel word read
    _threshold_event,    \* None or a ThresholdEvent
    regs,                \* the device's write registers 0x00..0x03 (None: never written)
    int_status,          \* the word the device's interrupt status register 0x06 holds
    busLog,              \* the bus transactions issued by the latest operation step
    exc,                 \* how the latest operation ended: "none" or the exception raised
    ret,                 \* what the latest operation returned (None when nothing)
    call,                \* the latest operation invoked and its argument
    faults,              \* transport errors the bus has raised so far
    pc,                  \* "idle", or "calibrate" while calibrate's loop is running
    iterations,          \* adjustments made by the current/latest calibrate call
    samples,             \* ALS reads made by the current/latest calibrate call
    start                \* <<gain, integration time>> the current/latest calibrate call began with

vars == <<_gain, _integration_time, _persistence, _interrupt, _shutdown,
          _power_saving_mode, _power_saving, _low_threshold, _high_threshold,
          _als_output, _white_output, _threshold_event, regs, int_status, busLog,
          exc, ret, call, faults, pc, iterations, samples, start>>

-----------------------------------------------------------------------------
(* Python values *)

\* Python's None: unset thresholds, outputs and events; "nothing returned".
None == -1

\* The result of a parse / enum lookup that raises ValueError.
ValueError == -2

\* math.isclose(a, b) with the default rel_tol = 1e-9: on the fixed-point
\* numbers of this model two distinct numbers are never that close.
isclose(a, b) == a = b

\* A number of the integration-time domain (x -> 1000 * x).
ms(n) == n * 1000

-----------------------------------------------------------------------------
(* Bit operations on non-negative integers *)

RECURSIVE Pow2(_)
Pow2(n) == IF n = 0 THEN 1 ELSE 2 * Pow2(n - 1)

\* a | b
RECURSIVE BitOr(_, _)
BitOr(a, b) ==
    IF a = 0 THEN b
    ELSE IF b = 0 THEN a
    ELSE (IF (a % 2 = 1) \/ (b % 2 = 1) THEN 1 ELSE 0) + 2 * BitOr(a \div 2, b \div 2)

\* a & ((1 << length) - 1)
BitMask(a, length) == a % Pow2(length)

-----------------------------------------------------------------------------
(* cmd_defs.py: the register codec *)

DEVICE_ADDRESS == 16

\* bitpack(offset, length): pack = (value & mask) << offset
pack(value, offset, length) == BitMask(value, length) * Pow2(offset)

\* bitpack(offset, length): the field extracted by unpack, (value >> offset) & mask
unpack(value, offset, length) == BitMask(value \div Pow2(offset), length)

\* ALSGain, @bitpack(11, 2)
GAIN_UNIT == 0
GAIN_DOUBLE == 1
GAIN_QUARTER == 2
GAIN_EIGTH == 3
ALSGain == {GAIN_UNIT, GAIN_DOUBLE, GAIN_QUARTER, GAIN_EIGTH}
ALSGain_pack(e) == pack(e, 11, 2)
ALSGain_unpack(value) ==
    LET c == unpack(value, 11, 2) IN IF c \in ALSGain THEN c ELSE ValueError

ALSGain_friendly_value(e) ==
    CASE e = GAIN_UNIT -> 8
      [] e = GAIN_DOUBLE -> 16
      [] e = GAIN_QUARTER -> 2
      [] e = GAIN_EIGTH -> 1

\* A parse that takes every number it does not know for gain 1 (a variant
\* the rejection of undefined values must tell from ALSGain.parse).
ALSGain_parse_lenient(gain) ==
    IF isclose(gain, 16) THEN GAIN_DOUBLE
    ELSE IF isclose(gain, 2) THEN GAIN_QUARTER
    ELSE IF isclose(gain, 1) THEN GAIN_EIGTH
    ELSE GAIN_UNIT

ALSGain_parse(gain) ==
    IF isclose(gain, 8) THEN GAIN_UNIT
    ELSE IF isclose(gain, 16) THEN GAIN_DOUBLE
    ELSE IF isclose(gain, 2) THEN GAIN_QUARTER
    ELSE IF isclose(gain, 1) THEN GAIN_EIGTH
    ELSE ValueError

\* ALSIntegrationTime, @bitpack(6, 4)
IT_25MS == 12
IT_50MS == 8
IT_100MS == 0
IT_200MS == 1
IT_400MS == 2
IT_800MS == 3
ALSIntegrationTime == {IT_25MS, IT_50MS, IT_100MS, IT_200MS, IT_400MS, IT_800MS}
\* A two-bit integration-time field, which drops the high bits of 1100 and
\* 1000 (a variant the payload's decoding must tell from @bitpack(6, 4)).
ALSIntegrationTime_pack_two_bits(e) == pack(e, 6, 2)
ALSIntegrationTime_pack(e) == pack(e, 6, 4)
\* A decoder with a three-bit mask, which loses the high bit of 1100 and
\* 1000 (a variant the round trip must tell from @bitpack(6, 4)).
ALSIntegrationTime_unpack_three_bits(value) ==
    LET c == unpack(value, 6, 3) IN IF c \in ALSIntegrationTime THEN c ELSE ValueError

ALSIntegrationTime_unpack(value) ==
    LET c == unpack(value, 6, 4) IN IF c \in ALSIntegrationTime THEN c ELSE ValueError

ALSIntegrationTime_friendly_value(e) ==
    CASE e = IT_25MS -> ms(25)
      [] e = IT_50MS -> ms(50)
      [] e = IT_100MS -> ms(100)
      [] e = IT_200MS -> ms(200)
      [] e = IT_400MS -> ms(400)
      [] e = IT_800MS -> ms(800)

ALSIntegrationTime_parse(time) ==
    IF isclose(time, ms(25)) \/ isclose(time, 25) THEN IT_25MS
    ELSE IF isclose(time, ms(50)) \/ isclose(time, 50) THEN IT_50MS
    ELSE IF isclose(time, ms(100)) \/ isclose(time, 100) THEN IT_100MS
    ELSE IF isclose(time, ms(200)) \/ isclose(time, 200) THEN IT_200MS
    ELSE IF isclose(time, ms(400)) \/ isclose(time, 400) THEN IT_400MS
    ELSE IF isclose(time, ms(800)) \/ isclose(time, 800) THEN IT_800MS
    ELSE ValueError

\* ALSPersistence, @bitpack(4, 2)
PERS_1 == 0
PERS_2 == 1
PERS_4 == 2
PERS_8 == 3
ALSPersistence == {PERS_1, PERS_2, PERS_4, PERS_8}
ALSPersistence_pack(e) == pack(e, 4, 2)
ALSPersistence_unpack(value) ==
    LET c == unpack(value, 4, 2) IN IF c \in ALSPersistence THEN c ELSE ValueError

ALSPersistence_friendly_value(e) ==
    CASE e = PERS_1 -> 1
      [] e = PERS_2 -> 2
      [] e = PERS_4 -> 4
      [] e = PERS_8 -> 8

ALSPersistence_parse(persistence) ==
    IF isclose(persistence, 1) THEN PERS_1
    ELSE IF isclose(persistence, 2) THEN PERS_2
    ELSE IF isclose(persistence, 4) THEN PERS_4
    ELSE IF isclose(persistence, 8) THEN PERS_8
    ELSE ValueError

\* ALSInterrupt, @bitpack(1, 1).  Python objects handed to the boolean parsers
\* are the strings "True", "False" and anything else (e.g. "1", the int 1).
INT_DISABLE == 0
INT_ENABLE == 1
ALSInterrupt == {INT_DISABLE, INT_ENABLE}
ALSInterrupt_pack(e) == pack(e, 1, 1)
ALSInterrupt_unpack(value) == unpack(value, 1, 1)
ALSInterrupt_friendly_value(e) == e = INT_ENABLE

ALSInterrupt_parse(interrupt) ==
    IF interrupt = "True" THEN INT_ENABLE
    ELSE IF interrupt = "False" THEN INT_DISABLE
    ELSE ValueError

\* ALSShutdown, @bitpack(0, 1)
POWER_ON == 0
SHUTDOWN == 1
ALSShutdown == {POWER_ON, SHUTDOWN}
ALSShutdown_pack(e) == pack(e, 0, 1)
ALSShutdown_unpack(value) == unpack(value, 0, 1)
ALSShutdown_friendly_value(e) == e = SHUTDOWN

ALSShutdown_parse(shutdown) ==
    IF shutdown = "False" THEN POWER_ON
    ELSE IF shutdown = "True" THEN SHUTDOWN
    ELSE ValueError

\* PowerSavingMode, @bitpack(1, 2)
PSM_ONE == 0
PSM_TWO == 1
PSM_THREE == 2
PSM_FOUR == 3
PowerSavingMode == {PSM_ONE, PSM_TWO, PSM_THREE, PSM_FOUR}
PowerSavingMode_pack(e) == pack(e, 1, 2)
PowerSavingMode_unpack(value) == unpack(value, 1, 2)

PowerSavingMode_friendly_value(e) ==
    CASE e = PSM_ONE -> 1
      [] e = PSM_TWO -> 2
      [] e = PSM_THREE -> 3
      [] e = PSM_FOUR -> 4

PowerSavingMode_parse(pwr_saving_mode) ==
    IF isclose(pwr_saving_mode, 1) THEN PSM_ONE
    ELSE IF isclose(pwr_saving_mode, 2) THEN PSM_TWO
    ELSE IF isclose(pwr_saving_mode, 3) THEN PSM_THREE
    ELSE IF isclose(pwr_saving_mode, 4) THEN PSM_FOUR
    ELSE ValueError

\* PowerSavingToggle, @bitpack(0, 1)
PSM_DISABLE == 0
PSM_ENABLE == 1
PowerSavingToggle == {PSM_DISABLE, PSM_ENABLE}
PowerSavingToggle_pack(e) == pack(e, 0, 1)
PowerSavingToggle_unpack(value) == unpack(value, 0, 1)
PowerSavingToggle_friendly_value(e) == e = PSM_ENABLE

PowerSavingToggle_parse(pwd_saving_toggle) ==
    IF pwd_saving_toggle = "True" THEN PSM_ENABLE
    ELSE IF pwd_saving_toggle = "False" THEN PSM_DISABLE
    ELSE ValueError

\* ThresholdInterrupt, @bitpack(14, 2)
INT_TH_NONE == 0
INT_TH_LOW == 2
INT_TH_HIGH == 1
INT_TH_BOTH == 3
\* A status field one bit lower, bits 14:13 (a variant the decoding of a
\* status word must tell from @bitpack(14, 2)).
ThresholdInterrupt_unpack_bits_14_13(value) == unpack(value, 13, 2)
ThresholdInterrupt_unpack(value) == unpack(value, 14, 2)

\* Register opcodes
CODE_CONFIGURATION == 0
CODE_HIGH_THRESHOLD == 1
CODE_LOW_THRESHOLD == 2
CODE_POWER_SAVING == 3
CODE_ALS_OUTPUT == 4
CODE_WHITE_OUTPUT == 5
CODE_INTERRUPT_STATUS == 6

\* A configuration payload without the gain field (a variant the writes of
\* an unchanged gain must tell from cmd_set_configuration_register).
cmd_set_configuration_register_no_gain(als_gain, als_integration_time, als_persistence, als_interrupt, als_shutdown) ==
    BitOr(BitOr(BitOr(ALSIntegrationTime_pack(als_integration_time),
                      ALSPersistence_pack(als_persistence)),
                ALSInterrupt_pack(als_interrupt)),
          ALSShutdown_pack(als_shutdown))

\* The payload of cmd_set_configuration_register
cmd_set_configuration_register(als_gain, als_integration_time, als_persistence, als_interrupt, als_shutdown) ==
    BitOr(BitOr(BitOr(BitOr(ALSGain_pack(als_gain),
                            ALSIntegrationTime_pack(als_integration_time)),
                      ALSPersistence_pack(als_persistence)),
                ALSInterrupt_pack(als_interrupt)),
          ALSShutdown_pack(als_shutdown))

\* The payloads of the threshold commands: 0xFFFF & int(threshold)
cmd_set_high_threshold_windows_setting(threshold) == BitMask(threshold, 16)
cmd_set_low_threshold_windows_setting(threshold) == BitMask(threshold, 16)

\* The payload of cmd_set_power_saving_mode
cmd_set_power_saving_mode(pwr_saving_mode, pwr_saving_toggle) ==
    BitOr(PowerSavingMode_pack(pwr_saving_mode), PowerSavingToggle_pack(pwr_saving_toggle))

\* cmd_get_interrupt_status(cmd): the ThresholdInterrupt decoded from a read word
cmd_get_interrupt_status(payload) == ThresholdInterrupt_unpack(payload)

-----------------------------------------------------------------------------
(* controller.py: enums and class constants *)

\* PowerStatus (IntEnum)
PWR_ON == 0
PWR_SAVE_1 == 1
PWR_SAVE_2 == 2
PWR_SAVE_3 == 3
PWR_SAVE_4 == 4
PWR_OFF == 5
PowerStatus == {PWR_ON, PWR_SAVE_1, PWR_SAVE_2, PWR_SAVE_3, PWR_SAVE_4, PWR_OFF}

\* ThresholdEvent (IntEnum); BOTH = LOW | HIGH
EVENT_NONE == 0
EVENT_LOW == 1
EVENT_HIGH == 2
EVENT_BOTH == BitOr(EVENT_LOW, EVENT_HIGH)

\* SamplingPerformance
UPPER_END == "upper_end"
SWEET == "sweet"
LOWER_END == "lower_end"

MAX_GAIN == ALSGain_friendly_value(GAIN_DOUBLE)
MIN_GAIN == ALSGain_friendly_value(GAIN_EIGTH)
MIN_INTEGRATION_TIME == ALSIntegrationTime_friendly_value(IT_25MS)
MAX_INTEGRATION_TIME == ALSIntegrationTime_friendly_value(IT_800MS)
MAX_OUTPUT == 65535

\* MAX_RESOLUTION_LUX = 0.0036, in ten-thousandths of a lux per count
MAX_RESOLUTION_LUX == 36

-----------------------------------------------------------------------------
(* The controller object while an operation runs on it.

   An operation is a function from such a record to such a record: the
   object's fields, the device's registers, the bus transactions issued so
   far (log), the exception raised so far (exc; once raised, the rest of
   the operation is skipped), the value returned (ret, a tuple: <<>> when
   nothing is returned) and the transport fault injected into this
   operation (fault = k > 0: its k-th bus call raises; 0: none does). *)

Self(fault) ==
    [_gain |-> _gain, _integration_time |-> _integration_time,
     _persistence |-> _persistence, _interrupt |-> _interrupt,
     _shutdown |-> _shutdown, _power_saving_mode |-> _power_saving_mode,
     _power_saving |-> _power_saving, _low_threshold |-> _low_threshold,
     _high_threshold |-> _high_threshold, _als_output |-> _als_output,
     _white_output |-> _white_output, _threshold_event |-> _threshold_event,
     regs |-> regs, log |-> <<>>, exc |-> "none", ret |-> <<>>, fault |-> fault]

raise(m, e) == IF m.exc = "none" THEN [m EXCEPT !.exc = e] ELSE m

return(m, r) == IF m.exc = "none" THEN [m EXCEPT !.ret = r] ELSE m

\* Command.__call__, direction WRITE: bus.write_word_data(addr, code, payload)
Command_call_write(m, code, payload) ==
    IF m.exc # "none" THEN m
    ELSE IF m.fault = 1 THEN [m EXCEPT !.exc = "TransportError", !.fault = 0]
    ELSE [m EXCEPT !.log = Append(@, [dir |-> "WRITE", code |-> code, payload |-> payload]),
                   !.regs[code] = payload,
                   !.fault = IF @ = 0 THEN 0 ELSE @ - 1]

\* Command.__call__, direction READ: data = bus.read_word_data(addr, code);
\* the word the device answers with is an input of the operation.
Command_call_read(m, code, data) ==
    IF m.exc # "none" THEN m
    ELSE IF m.fault = 1 THEN [m EXCEPT !.exc = "TransportError", !.fault = 0]
    ELSE [m EXCEPT !.log = Append(@, [dir |-> "READ", code |-> code, payload |-> data]),
                   !.fault = IF @ = 0 THEN 0 ELSE @ - 1]

_configure_register(m) ==
    Command_call_write(m, CODE_CONFIGURATION,
        cmd_set_configuration_register(m._gain, m._integration_time, m._persistence,
                                       m._interrupt, m._shutdown))

_configure_power_saving(m) ==
    Command_call_write(m, CODE_POWER_SAVING,
        cmd_set_power_saving_mode(m._power_saving_mode, m._power_saving))

\* A low-threshold write addressed to the high-threshold register (a variant
\* the registers' contents must tell from _set_low_threshold).
_set_low_threshold_high_code(m) ==
    Command_call_write(m, CODE_HIGH_THRESHOLD,
        cmd_set_low_threshold_windows_setting(m._low_threshold))

_set_low_threshold(m) ==
    Command_call_write(m, CODE_LOW_THRESHOLD,
        cmd_set_low_threshold_windows_setting(m._low_threshold))

_set_high_threshold(m) ==
    Command_call_write(m, CODE_HIGH_THRESHOLD,
        cmd_set_high_threshold_windows_setting(m._high_threshold))

\* A read that keeps the word of an earlier sample (a variant the sampling of
\* calibrate must tell from _get_als_output).
_get_als_output_cached(m, data) ==
    IF m._als_output # None THEN m
    ELSE LET r == Command_call_read(m, CODE_ALS_OUTPUT, data)
         IN  IF r.exc # "none" THEN r ELSE [r EXCEPT !._als_output = data]

_get_als_output(m, data) ==
    LET r == Command_call_read(m, CODE_ALS_OUTPUT, data)
    IN  IF r.exc # "none" THEN r ELSE [r EXCEPT !._als_output = data]

_get_white_output(m, data) ==
    LET r == Command_call_read(m, CODE_WHITE_OUTPUT, data)
    IN  IF r.exc # "none" THEN r ELSE [r EXCEPT !._white_output = data]

-----------------------------------------------------------------------------
(* Property getters *)

gain(m) == ALSGain_friendly_value(m._gain)
integration_time(m) == ALSIntegrationTime_friendly_value(m._integration_time)
persistence(m) == ALSPersistence_friendly_value(m._persistence)
threshold_enabled(m) == ALSInterrupt_friendly_value(m._interrupt)

power_status(m) ==
    IF ALSShutdown_friendly_value(m._shutdown) THEN PWR_OFF
    ELSE IF PowerSavingToggle_friendly_value(m._power_saving)
         THEN PowerSavingMode_friendly_value(m._power_saving_mode)
    ELSE PWR_ON

\* A classification whose lower band takes in the count 100 (a variant the
\* reference classification must tell from sampling_performance).
sampling_performance_inclusive(m) ==
    IF m._als_output <= 100
       /\ (gain(m) < MAX_GAIN \/ integration_time(m) < MAX_INTEGRATION_TIME)
    THEN LOWER_END
    ELSE IF m._als_output > 10000
            /\ (gain(m) > MIN_GAIN \/ integration_time(m) > MIN_INTEGRATION_TIME)
    THEN UPPER_END
    ELSE SWEET

\* A resolution scaled from gain 1 instead of MAX_GAIN (a variant the scale
\* at gain 1 and 2 must tell from lux_resolution).
lux_resolution_from_unit_gain(m) ==
    LET gain_scale == ALSGain_friendly_value(GAIN_UNIT) \div gain(m)
        time_scale == MAX_INTEGRATION_TIME \div integration_time(m)
    IN  MAX_RESOLUTION_LUX * gain_scale * time_scale

\* lux_resolution; int(a / b) of two positive numbers is a \div b
lux_resolution(m) ==
    LET gain_scale == MAX_GAIN \div gain(m)
        time_scale == MAX_INTEGRATION_TIME \div integration_time(m)
    IN  MAX_RESOLUTION_LUX * gain_scale * time_scale

\* Defined once a sample has been taken (the comparison of None raises before).
sampling_performance(m) ==
    IF m._als_output < 100
       /\ (gain(m) < MAX_GAIN \/ integration_time(m) < MAX_INTEGRATION_TIME)
    THEN LOWER_END
    ELSE IF m._als_output > 10000
            /\ (gain(m) > MIN_GAIN \/ integration_time(m) > MIN_INTEGRATION_TIME)
    THEN UPPER_END
    ELSE SWEET

-----------------------------------------------------------------------------
(* Property setters *)

threshold_enabled_setter(m, value) ==
    IF m.exc # "none" THEN m
    ELSE LET v == ALSInterrupt_parse(value)
         IN  IF v = ValueError THEN raise(m, "ValueError")
             ELSE IF v # m._interrupt
                  THEN _configure_register([m EXCEPT !._interrupt = v])
             ELSE m

\* A gain setter that writes the register whether or not the value changes
\* (a variant the same-value rule must tell from the gain setter).
gain_setter_always_writes(m, value) ==
    IF m.exc # "none" THEN m
    ELSE LET v == ALSGain_parse(value)
         IN  IF v = ValueError THEN raise(m, "ValueError")
             ELSE _configure_register([m EXCEPT !._gain = v])

gain_setter(m, value) ==
    IF m.exc # "none" THEN m
    ELSE LET v == ALSGain_parse(value)
         IN  IF v = ValueError THEN raise(m, "ValueError")
             ELSE IF v # m._gain
                  THEN _configure_register([m EXCEPT !._gain = v])
             ELSE m

integration_time_setter(m, value) ==
    IF m.exc # "none" THEN m
    ELSE LET v == ALSIntegrationTime_parse(value)
         IN  IF v = ValueError THEN raise(m, "ValueError")
             ELSE IF v # m._integration_time
                  THEN _configure_register([m EXCEPT !._integration_time = v])
             ELSE m

persistence_setter(m, value) ==
    IF m.exc # "none" THEN m
    ELSE LET v == ALSPersistence_parse(value)
         IN  IF v = ValueError THEN raise(m, "ValueError")
             ELSE IF v # m._persistence
                  THEN _configure_register([m EXCEPT !._persistence = v])
             ELSE m

\* A _set_shutdown that writes the register whether or not the flag changes
\* (a variant the write count of power_status must tell from _set_shutdown).
_set_shutdown_always_writes(m, shutdown) ==
    IF m.exc # "none" THEN m
    ELSE LET v == IF shutdown # "None" THEN ALSShutdown_parse(shutdown) ELSE m._shutdown
         IN  IF v = ValueError THEN raise(m, "ValueError")
             ELSE _configure_register([m EXCEPT !._shutdown = v])

\* shutdown: "True", "False", or "None" (keep the current member)
_set_shutdown(m, shutdown) ==
    IF m.exc # "none" THEN m
    ELSE LET v == IF shutdown # "None" THEN ALSShutdown_parse(shutdown) ELSE m._shutdown
         IN  IF v = ValueError THEN raise(m, "ValueError")
             ELSE IF m._shutdown # v
                  THEN _configure_register([m EXCEPT !._shutdown = v])
             ELSE m

\* enabled: "True", "False" or "None"; mode: a number or None
_set_power_saving(m, enabled, mode) ==
    IF m.exc # "none" THEN m
    ELSE LET e == IF enabled # "None" THEN PowerSavingToggle_parse(enabled)
                  ELSE m._power_saving
             md == IF mode # None THEN PowerSavingMode_parse(mode)
                   ELSE m._power_saving_mode
         IN  IF e = ValueError \/ md = ValueError THEN raise(m, "ValueError")
             ELSE IF e # m._power_saving \/ md # m._power_saving_mode
                  THEN _configure_power_saving([m EXCEPT !._power_saving = e,
                                                         !._power_saving_mode = md])
             ELSE m

\* A power_status setter whose PWR_OFF only sets the shutdown flag (a variant
\* the compound assignment must tell from the power_status setter).
power_status_setter_off_keeps_saving(m, value) ==
    IF m.exc # "none" THEN m
    ELSE IF value \notin PowerStatus THEN raise(m, "ValueError")
    ELSE IF value = PWR_ON
         THEN _set_power_saving(_set_shutdown(m, "False"), "False", None)
    ELSE IF value = PWR_OFF
         THEN _set_shutdown(m, "True")
    ELSE _set_power_saving(_set_shutdown(m, "False"), "True", value)

power_status_setter(m, value) ==
    IF m.exc # "none" THEN m
    ELSE IF value \notin PowerStatus THEN raise(m, "ValueError")
    ELSE IF value = PWR_ON
         THEN _set_power_saving(_set_shutdown(m, "False"), "False", None)
    ELSE IF value = PWR_OFF
         THEN _set_power_saving(_set_shutdown(m, "True"), "False", None)
    ELSE _set_power_saving(_set_shutdown(m, "False"), "True", value)

threshold_low_setter(m, value) ==
    IF m.exc # "none" THEN m
    ELSE IF value # None /\ value # m._low_threshold
         THEN _set_low_threshold([m EXCEPT !._low_threshold = value])
    ELSE m

threshold_high_setter(m, value) ==
    IF m.exc # "none" THEN m
    ELSE IF value # None /\ value # m._high_threshold
         THEN _set_high_threshold([m EXCEPT !._high_threshold = value])
    ELSE m

-----------------------------------------------------------------------------
(* Adjustment primitives *)

increase_gain(m) ==
    IF m.exc # "none" THEN m
    ELSE IF gain(m) < MAX_GAIN
         THEN LET new_gain == gain(m) * 2
              IN  \* Gain skips 1/2
                  gain_setter(m, IF new_gain = 4 THEN new_gain * 2 ELSE new_gain)
    ELSE m

\* A decrease_gain that halves without skipping 1/2 (a variant the ladder
\* step must tell from decrease_gain).
decrease_gain_no_skip(m) ==
    IF m.exc # "none" THEN m
    ELSE IF gain(m) > MIN_GAIN
         THEN gain_setter(m, gain(m) \div 2)
    ELSE m

decrease_gain(m) ==
    IF m.exc # "none" THEN m
    ELSE IF gain(m) > MIN_GAIN
         THEN LET new_gain == gain(m) \div 2
              IN  \* Gain skips 1/2
                  gain_setter(m, IF new_gain = 4 THEN new_gain \div 2 ELSE new_gain)
    ELSE m

\* An increase_integration_time that doubles whatever the current value (a
\* variant the clamp at the boundary must tell from increase_integration_time).
increase_integration_time_unclamped(m) ==
    IF m.exc # "none" THEN m
    ELSE integration_time_setter(m, integration_time(m) * 2)

increase_integration_time(m) ==
    IF m.exc # "none" THEN m
    ELSE IF integration_time(m) < MAX_INTEGRATION_TIME
         THEN integration_time_setter(m, integration_time(m) * 2)
    ELSE m

decrease_integration_time(m) ==
    IF m.exc # "none" THEN m
    ELSE IF integration_time(m) > MIN_INTEGRATION_TIME
         THEN integration_time_setter(m, integration_time(m) \div 2)
    ELSE m

-----------------------------------------------------------------------------
(* Sampling and threshold polling *)

\* A refresh that reads the ALS register whatever its flags (a variant the
\* reads of a sample must tell from refresh).
refresh_always_reads_als(m, refresh_output, refresh_white_output, cycle_power, als_data, white_data) ==
    LET m1 == IF (cycle_power /\ power_status(m) = PWR_ON) \/ power_status(m) = PWR_OFF
              THEN power_status_setter(power_status_setter(m, PWR_OFF), PWR_ON)
              ELSE m
        m2 == _get_als_output(m1, als_data)
        m3 == IF refresh_white_output THEN _get_white_output(m2, white_data) ELSE m2
    IN  IF refresh_output /\ ~refresh_white_output THEN return(m3, <<m3._als_output>>)
        ELSE IF refresh_output /\ refresh_white_output
             THEN return(m3, <<m3._als_output, m3._white_output>>)
        ELSE IF refresh_white_output /\ ~refresh_output
             THEN return(m3, <<m3._white_output>>)
        ELSE m3

\* A refresh that cycles the power only when cycle_power is set, in PWR_OFF
\* as in PWR_ON (a variant the wake-up of a shut-down device must tell from
\* refresh).
refresh_cycles_only_on_request(m, refresh_output, refresh_white_output, cycle_power, als_data, white_data) ==
    LET m1 == IF cycle_power /\ (power_status(m) = PWR_ON \/ power_status(m) = PWR_OFF)
              THEN power_status_setter(power_status_setter(m, PWR_OFF), PWR_ON)
              ELSE m
        m2 == IF refresh_output THEN _get_als_output(m1, als_data) ELSE m1
        m3 == IF refresh_white_output THEN _get_white_output(m2, white_data) ELSE m2
    IN  IF refresh_output /\ ~refresh_white_output THEN return(m3, <<m3._als_output>>)
        ELSE IF refresh_output /\ refresh_white_output
             THEN return(m3, <<m3._als_output, m3._white_output>>)
        ELSE IF refresh_white_output /\ ~refresh_output
             THEN return(m3, <<m3._white_output>>)
        ELSE m3

\* refresh(refresh_output, refresh_white_output, cycle_power, wait_sampling);
\* als_data and white_data are the words the device answers with.  The sleep
\* of wait_sampling changes nothing of the object.
refresh(m, refresh_output, refresh_white_output, cycle_power, als_data, white_data) ==
    LET m1 == IF (cycle_power /\ power_status(m) = PWR_ON) \/ power_status(m) = PWR_OFF
              THEN power_status_setter(power_status_setter(m, PWR_OFF), PWR_ON)
              ELSE m
        m2 == IF refresh_output THEN _get_als_output(m1, als_data) ELSE m1
        m3 == IF refresh_white_output THEN _get_white_output(m2, white_data) ELSE m2
    IN  IF refresh_output /\ ~refresh_white_output THEN return(m3, <<m3._als_output>>)
        ELSE IF refresh_output /\ refresh_white_output
             THEN return(m3, <<m3._als_output, m3._white_output>>)
        ELSE IF refresh_white_output /\ ~refresh_output
             THEN return(m3, <<m3._white_output>>)
        ELSE m3

\* A poll that reads the status register whether or not interrupts are
\* enabled (a variant the disabled case must tell from poll_threshold_event).
poll_threshold_event_unguarded(m, status) ==
    LET r == Command_call_read(m, CODE_INTERRUPT_STATUS, status)
        st == cmd_get_interrupt_status(status)
        ev == IF st = INT_TH_BOTH THEN EVENT_BOTH
              ELSE IF st = INT_TH_HIGH THEN EVENT_HIGH
              ELSE IF st = INT_TH_LOW THEN EVENT_LOW
              ELSE IF st = INT_TH_NONE THEN EVENT_NONE
              ELSE r._threshold_event
    IN  IF r.exc # "none" THEN r
        ELSE return([r EXCEPT !._threshold_event = ev], <<ev>>)

\* poll_threshold_event(); status is the word the device answers with
poll_threshold_event(m, status) ==
    IF ~threshold_enabled(m) THEN return(m, <<>>)
    ELSE LET r == Command_call_read(m, CODE_INTERRUPT_STATUS, status)
             st == cmd_get_interrupt_status(status)
             ev == IF st = INT_TH_BOTH THEN EVENT_BOTH
                   ELSE IF st = INT_TH_HIGH THEN EVENT_HIGH
                   ELSE IF st = INT_TH_LOW THEN EVENT_LOW
                   ELSE IF st = INT_TH_NONE THEN EVENT_NONE
                   ELSE r._threshold_event
         IN  IF r.exc # "none" THEN r
             ELSE return([r EXCEPT !._threshold_event = ev], <<ev>>)

-----------------------------------------------------------------------------
(* calibrate *)

\* A reference point at the longest integration time (a variant the order of
\* the first adjustments must tell from the 100 ms reference).
_LONGEST_INTEGRATION_TIME == ms(800)

_DEFAULT_INTEGRATION_TIME == ms(100)

\* A loop body without the last tier of either direction: it stops once the
\* gain is at its limit (a variant the boundary rule must tell from calibrate).
calibrate_branch_two_tiers(m) ==
    IF sampling_performance(m) = UPPER_END
    THEN IF integration_time(m) > _DEFAULT_INTEGRATION_TIME THEN "decrease_integration_time"
         ELSE IF gain(m) > MIN_GAIN THEN "decrease_gain"
         ELSE "break"
    ELSE IF sampling_performance(m) = LOWER_END
    THEN IF integration_time(m) < _DEFAULT_INTEGRATION_TIME THEN "increase_integration_time"
         ELSE IF gain(m) < MAX_GAIN THEN "increase_gain"
         ELSE "break"
    ELSE "break"

\* A loop body that moves the gain before the integration time (a variant
\* the priority order must tell from calibrate).
calibrate_branch_gain_first(m) ==
    IF sampling_performance(m) = UPPER_END
    THEN IF gain(m) > MIN_GAIN THEN "decrease_gain"
         ELSE IF integration_time(m) > MIN_INTEGRATION_TIME THEN "decrease_integration_time"
         ELSE "break"
    ELSE IF sampling_performance(m) = LOWER_END
    THEN IF gain(m) < MAX_GAIN THEN "increase_gain"
         ELSE IF integration_time(m) < MAX_INTEGRATION_TIME THEN "increase_integration_time"
         ELSE "break"
    ELSE "break"

\* A loop body whose last LOWER_END tier is a copy of the UPPER_END one (a
\* variant the direction of the adjustments must tell from calibrate).
calibrate_branch_pasted_tier(m) ==
    IF sampling_performance(m) = UPPER_END
    THEN IF integration_time(m) > _DEFAULT_INTEGRATION_TIME THEN "decrease_integration_time"
         ELSE IF gain(m) > MIN_GAIN THEN "decrease_gain"
         ELSE IF integration_time(m) > MIN_INTEGRATION_TIME THEN "decrease_integration_time"
         ELSE "break"
    ELSE IF sampling_performance(m) = LOWER_END
    THEN IF integration_time(m) < _DEFAULT_INTEGRATION_TIME THEN "increase_integration_time"
         ELSE IF gain(m) < MAX_GAIN THEN "increase_gain"
         ELSE IF integration_time(m) > MIN_INTEGRATION_TIME THEN "decrease_integration_time"
         ELSE "break"
    ELSE "break"

\* The branch one pass of calibrate's loop body takes on the object m.
calibrate_branch(m) ==
    IF sampling_performance(m) = UPPER_END
    THEN IF integration_time(m) > _DEFAULT_INTEGRATION_TIME THEN "decrease_integration_time"
         ELSE IF gain(m) > MIN_GAIN THEN "decrease_gain"
         ELSE IF integration_time(m) > MIN_INTEGRATION_TIME THEN "decrease_integration_time"
         ELSE "break"
    ELSE IF sampling_performance(m) = LOWER_END
    THEN IF integration_time(m) < _DEFAULT_INTEGRATION_TIME THEN "increase_integration_time"
         ELSE IF gain(m) < MAX_GAIN THEN "increase_gain"
         ELSE IF integration_time(m) < MAX_INTEGRATION_TIME THEN "increase_integration_time"
         ELSE "break"
    ELSE "break"

\* The adjustment of one pass of the loop body (the pass ends with refresh()).
calibrate_adjust(m) ==
    LET b == calibrate_branch(m)
    IN  IF b = "decrease_integration_time" THEN decrease_integration_time(m)
        ELSE IF b = "decrease_gain" THEN decrease_gain(m)
        ELSE IF b = "increase_integration_time" THEN increase_integration_time(m)
        ELSE IF b = "increase_gain" THEN increase_gain(m)
        ELSE m

-----------------------------------------------------------------------------
(* State machine *)

\* VEML7700Controller.__init__; no register of the device has been written.
Init ==
    /\ _gain = GAIN_UNIT
    /\ _integration_time = IT_100MS
    /\ _persistence = PERS_1
    /\ _interrupt = INT_DISABLE
    /\ _shutdown = POWER_ON
    /\ _power_saving_mode = PSM_ONE
    /\ _power_saving = PSM_DISABLE
    /\ _low_threshold = None
    /\ _high_threshold = None
    /\ _als_output = None
    /\ _white_output = None
    /\ _threshold_event = None
    /\ regs = [c \in CODE_CONFIGURATION..CODE_POWER_SAVING |-> None]
    /\ busLog = <<>>
    /\ exc = "none"
    /\ ret = <<>>
    /\ call = [op |-> "__init__", arg |-> None]
    /\ faults = 0
    /\ int_status = 0
    /\ pc = "idle"
    /\ iterations = 0
    /\ samples = 0
    /\ start = <<>>

\* The object, the device and the outcome after an operation that ran to m.
Commit(m) ==
    /\ _gain' = m._gain
    /\ _integration_time' = m._integration_time
    /\ _persistence' = m._persistence
    /\ _interrupt' = m._interrupt
    /\ _shutdown' = m._shutdown
    /\ _power_saving_mode' = m._power_saving_mode
    /\ _power_saving' = m._power_saving
    /\ _low_threshold' = m._low_threshold
    /\ _high_threshold' = m._high_threshold
    /\ _als_output' = m._als_output
    /\ _white_output' = m._white_output
    /\ _threshold_event' = m._threshold_event
    /\ regs' = m.regs
    /\ busLog' = m.log
    /\ exc' = m.exc
    /\ ret' = m.ret
    /\ faults' = faults + (IF m.exc = "TransportError" THEN 1 ELSE 0)
    /\ int_status' = int_status

\* The operation m is run once and its result committed.
Run(m) == \E r \in {m} : Commit(r)

\* A call of a public operation other than calibrate, from the caller's thread.
Called(op, arg) ==
    /\ pc = "idle"
    /\ call' = [op |-> op, arg |-> arg]
    /\ pc' = "idle"
    /\ iterations' = 0
    /\ samples' = 0
    /\ start' = <<>>

\* The most transport errors the bus raises in one run.
MaxFaults == 1

\* Whether the bus may fail in this operation (fault > 0).
Injected(fault) == IF fault = 0 THEN TRUE ELSE faults < MaxFaults

SetGain(value, fault) ==
    Called("gain", value) /\ Injected(fault) /\ Run(gain_setter(Self(fault), value))

SetIntegrationTime(value, fault) ==
    Called("integration_time", value) /\ Injected(fault) /\ Run(integration_time_setter(Self(fault), value))

SetPersistence(value, fault) ==
    Called("persistence", value) /\ Injected(fault) /\ Run(persistence_setter(Self(fault), value))

SetThresholdEnabled(value, fault) ==
    Called("threshold_enabled", value) /\ Injected(fault) /\ Run(threshold_enabled_setter(Self(fault), value))

SetPowerStatus(value, fault) ==
    Called("power_status", value) /\ Injected(fault) /\ Run(power_status_setter(Self(fault), value))

SetThresholdLow(value, fault) ==
    Called("threshold_low", value) /\ Injected(fault) /\ Run(threshold_low_setter(Self(fault), value))

SetThresholdHigh(value, fault) ==
    Called("threshold_high", value) /\ Injected(fault) /\ Run(threshold_high_setter(Self(fault), value))

IncreaseGain ==
    Called("increase_gain", None) /\ Run(increase_gain(Self(0)))

DecreaseGain ==
    Called("decrease_gain", None) /\ Run(decrease_gain(Self(0)))

IncreaseIntegrationTime ==
    Called("increase_integration_time", None) /\ Run(increase_integration_time(Self(0)))

DecreaseIntegrationTime ==
    Called("decrease_integration_time", None) /\ Run(decrease_integration_time(Self(0)))

\* refresh(refresh_output, refresh_white_output, cycle_power); arg records the flags
Refresh(refresh_output, refresh_white_output, cycle_power, als_data, white_data) ==
    /\ Called("refresh", <<refresh_output, refresh_white_output, cycle_power>>)
    /\ Run(refresh(Self(0), refresh_output, refresh_white_output, cycle_power, als_data, white_data))

PollThresholdEvent(status) ==
    Called("poll_threshold_event", None) /\ Run(poll_threshold_event(Self(0), status))

\* The sampling_performance getter; comparing an unset output (None) raises.
GetSamplingPerformance ==
    /\ Called("sampling_performance", None)
    /\ IF _als_output = None
       THEN Run(raise(Self(0), "TypeError"))
       ELSE Run(return(Self(0), <<sampling_performance(Self(0))>>))

\* The lux_resolution getter
GetLuxResolution ==
    /\ Called("lux_resolution", None)
    /\ Run(return(Self(0), <<lux_resolution(Self(0))>>))

(* calibrate, a step at a time: the first refresh(), then each pass of the
   loop (its adjustment and the refresh() that ends it), then the return.
   The caller is blocked meanwhile: nothing else runs on the object. *)

\* The most passes of the loop the model follows in one call.
MaxIterations == 9

CalibrateBegin(als_data) ==
    /\ pc = "idle"
    /\ call' = [op |-> "calibrate", arg |-> None]
    /\ Run([refresh(Self(0), TRUE, FALSE, TRUE, als_data, None) EXCEPT !.ret = <<>>])
    /\ pc' = "calibrate"
    /\ iterations' = 0
    /\ samples' = Cardinality({i \in DOMAIN busLog' :
                       busLog'[i].dir = "READ" /\ busLog'[i].code = CODE_ALS_OUTPUT})
    /\ start' = <<gain(Self(0)), integration_time(Self(0))>>

CalibratePass(als_data) ==
    /\ pc = "calibrate"
    /\ sampling_performance(Self(0)) # SWEET
    /\ calibrate_branch(Self(0)) # "break"
    /\ iterations < MaxIterations
    /\ Run([refresh(calibrate_adjust(Self(0)), TRUE, FALSE, TRUE, als_data, None)
                  EXCEPT !.ret = <<>>])
    /\ iterations' = iterations + 1
    /\ samples' = samples + Cardinality({i \in DOMAIN busLog' :
                       busLog'[i].dir = "READ" /\ busLog'[i].code = CODE_ALS_OUTPUT})
    /\ UNCHANGED <<call, pc, start>>

CalibrateReturn ==
    /\ pc = "calibrate"
    /\ \/ sampling_performance(Self(0)) = SWEET
       \/ calibrate_branch(Self(0)) = "break"
    /\ Run(Self(0))
    /\ pc' = "idle"
    /\ UNCHANGED <<call, iterations, samples, start>>

-----------------------------------------------------------------------------
(* Inputs and specifications *)

\* Gains handed to the gain setter: 1/8, 1/4, 1, 2 and the undefined 1/2.
GainInputs == {1, 2, 8, 16, 4}

\* Integration times handed to the setter: the six defined ones, the alias
\* 0.1 (seconds) of 100 ms, and the undefined 150.
IntegrationTimeInputs == {ms(25), ms(50), ms(100), ms(200), ms(400), ms(800), 100, ms(150)}

\* The shortest, the default and the longest integration time (codes 1100,
\* 0000, 0011), the alias 0.1 and the undefined 150.
SomeIntegrationTimeInputs == {ms(25), ms(100), ms(800), 100, ms(150)}

\* Persistence values: two defined ones and the undefined 3.
PersistenceInputs == {1, 4, 3}

\* Objects handed to the threshold_enabled setter; "1" is not a bool.
BoolInputs == {"True", "False", "1"}

\* Power statuses: PWR_ON, PWR_SAVE_1, PWR_SAVE_3, PWR_OFF and the undefined 6.
PowerStatusInputs == {PWR_ON, PWR_SAVE_1, PWR_SAVE_3, PWR_OFF, 6}

\* Threshold values: None, a count, and a count above 16 bits.
ThresholdInputs == {None, 70000}

\* Words the ALS output register answers with: below 100, in the accepted
\* band, above 10000.
RawInputs == {50, 5000, 20000}

\* The property setters, with their arguments drawn from the given sets and
\* the transport fault from F.
Setters(G, T, P, B, W, H, F) ==
    \E f \in F :
        \/ \E v \in G : SetGain(v, f)
        \/ \E v \in T : SetIntegrationTime(v, f)
        \/ \E v \in P : SetPersistence(v, f)
        \/ \E v \in B : SetThresholdEnabled(v, f)
        \/ \E v \in W : SetPowerStatus(v, f)
        \/ \E v \in H : SetThresholdLow(v, f)
        \/ \E v \in H : SetThresholdHigh(v, f)

\* The device object: every property setter, on a bus that never fails.
Next ==
    Setters(GainInputs, SomeIntegrationTimeInputs, PersistenceInputs, BoolInputs,
            PowerStatusInputs, ThresholdInputs, {0})

Spec == Init /\ [][Next]_vars

\* The property setters on a bus whose calls may raise a transport error:
\* fault = 0 (no call fails), 1 or 2 (the first or second call fails).
NextFault ==
    Setters({8, 16}, {ms(100), ms(200)}, {1, 4}, {"True", "False"},
            {PWR_ON, PWR_SAVE_3, PWR_OFF}, {None, 70000}, 0..2)

SpecFault == Init /\ [][NextFault]_vars

\* Auto-ranging: calibrate from every gain, integration time and power
\* status the setters reach, with every sequence of ALS words.
NextCalibrate ==
    \/ \E v \in GainInputs : SetGain(v, 0)
    \/ \E v \in IntegrationTimeInputs : SetIntegrationTime(v, 0)
    \/ \E v \in PowerStatusInputs : SetPowerStatus(v, 0)
    \/ \E d \in RawInputs : CalibrateBegin(d)
    \/ \E d \in RawInputs : CalibratePass(d)
    \/ CalibrateReturn

SpecCalibrate == Init /\ [][NextCalibrate]_vars

\* Words of the ALS register below 100 and above 10000, up to the ends of
\* the two bands.
SteadyInputs == {0, 99, 10001, MAX_OUTPUT}

\* Two words of the same band: both below 100, or both above 10000.
SameBand(a, b) == (a < 100 /\ b < 100) \/ (a > 10000 /\ b > 10000)

\* A pass of calibrate's loop whose refresh answers in the band of the
\* sample before it.
CalibratePassSteady(als_data) ==
    /\ SameBand(als_data, _als_output)
    /\ CalibratePass(als_data)

\* Auto-ranging under a light that stays in one band for the whole call:
\* every refresh of a calibrate call answers in the band of its first sample.
NextSteady ==
    \/ \E v \in GainInputs : SetGain(v, 0)
    \/ \E v \in IntegrationTimeInputs : SetIntegrationTime(v, 0)
    \/ \E v \in {PWR_ON, PWR_SAVE_1, PWR_OFF} : SetPowerStatus(v, 0)
    \/ \E d \in SteadyInputs : CalibrateBegin(d)
    \/ \E d \in SteadyInputs : CalibratePassSteady(d)
    \/ CalibrateReturn

SpecSteady == Init /\ [][NextSteady]_vars

\* Sampling and auto-ranging in every power status: refresh with every
\* combination of its flags and calibrate, after every power_status
\* assignment.
NextWake ==
    \/ \E ro, rw, cp \in BOOLEAN : \E a \in {50, 20000} : Refresh(ro, rw, cp, a, 300)
    \/ \E v \in PowerStatus : SetPowerStatus(v, 0)
    \/ \E d \in RawInputs : CalibrateBegin(d)
    \/ \E d \in RawInputs : CalibratePass(d)
    \/ CalibrateReturn

SpecWake == Init /\ [][NextWake]_vars

\* Every public operation that reaches the bus, on a bus that never fails:
\* each setter with a value that changes its field (threshold_low with two;
\* gain and power_status also with one they reject), refresh of both outputs
\* or of none,
\* poll_threshold_event, and calibrate under a dim light, which drives
\* increase_gain and increase_integration_time up to gain 2, 800 ms.
NextPublic ==
    \/ \E v \in {16, 4} : SetGain(v, 0)
    \/ SetIntegrationTime(ms(200), 0)
    \/ SetPersistence(4, 0)
    \/ \E v \in {"True", "False"} : SetThresholdEnabled(v, 0)
    \/ \E v \in {PWR_SAVE_2, PWR_OFF, 6} : SetPowerStatus(v, 0)
    \/ \E v \in {70000, 5} : SetThresholdLow(v, 0)
    \/ SetThresholdHigh(300, 0)
    \/ \E f \in BOOLEAN : Refresh(f, f, TRUE, 50, 300)
    \/ PollThresholdEvent(49152 + 1)
    \/ CalibrateBegin(50)
    \/ CalibratePass(50)
    \/ CalibrateReturn

SpecPublic == Init /\ [][NextPublic]_vars

\* Every power status and the undefined 6.
AllPowerStatusInputs == PowerStatus \cup {6}

\* The power status among the other configuration fields: every power
\* status assigned from every other, with the gain and the interrupt enable
\* set in between.
NextPower ==
    \/ \E v \in AllPowerStatusInputs : SetPowerStatus(v, 0)
    \/ \E v \in {8, 16} : SetGain(v, 0)
    \/ \E v \in {"True", "False"} : SetThresholdEnabled(v, 0)

SpecPower == Init /\ [][NextPower]_vars

\* The word the ALS register answers a sample with, and the white channel's.
AlsInputs == {20000}
WhiteInputs == {300}

\* Status words with bits 15:14 = 01 and 11, over differing low bits.
StatusInputs == {16384 + 5, 49152 + 1}

\* Sampling among the other operations: refresh with every combination of
\* its flags, polls, power-status and interrupt-enable changes and the
\* adjustment primitives.
NextSample ==
    \/ \E ro, rw, cp \in BOOLEAN : \E a \in AlsInputs : \E w \in WhiteInputs :
          Refresh(ro, rw, cp, a, w)
    \/ \E st \in StatusInputs : PollThresholdEvent(st)
    \/ \E v \in {PWR_SAVE_1, PWR_OFF} : SetPowerStatus(v, 0)
    \/ \E v \in {"True", "False"} : SetThresholdEnabled(v, 0)
    \/ IncreaseGain
    \/ DecreaseGain
    \/ IncreaseIntegrationTime
    \/ DecreaseIntegrationTime

SpecSample == Init /\ [][NextSample]_vars

\* The adjustment primitives over both ladders, with the interrupt enable
\* and the persistence set in between.
NextAdjust ==
    \/ IncreaseGain
    \/ DecreaseGain
    \/ IncreaseIntegrationTime
    \/ DecreaseIntegrationTime
    \/ \E v \in {"True", "False"} : SetThresholdEnabled(v, 0)
    \/ \E v \in {1, 8} : SetPersistence(v, 0)

SpecAdjust == Init /\ [][NextAdjust]_vars

\* Every persistence and the undefined 3.
AllPersistenceInputs == {1, 2, 4, 8, 3}

\* The three multi-bit fields of the configuration register: every gain,
\* integration time and persistence parsed, stored and written.
NextCodec ==
    \/ \E v \in GainInputs : SetGain(v, 0)
    \/ \E v \in IntegrationTimeInputs : SetIntegrationTime(v, 0)
    \/ \E v \in AllPersistenceInputs : SetPersistence(v, 0)

SpecCodec == Init /\ [][NextCodec]_vars

\* The resolution at every gain and integration time the setters reach.
NextResolution ==
    \/ \E v \in GainInputs : SetGain(v, 0)
    \/ \E v \in IntegrationTimeInputs : SetIntegrationTime(v, 0)
    \/ GetLuxResolution

SpecResolution == Init /\ [][NextResolution]_vars

-----------------------------------------------------------------------------
(* Properties of calibrate (under SpecCalibrate) *)

\* The object's gain and integration time, now and after the step.
Gain == ALSGain_friendly_value(_gain)
Time == ALSIntegrationTime_friendly_value(_integration_time)
GainNext == ALSGain_friendly_value(_gain')
TimeNext == ALSIntegrationTime_friendly_value(_integration_time')

\* The steps of the two ladders: 3 between the 4 gains, 5 between the 6 times.
LadderSteps == (Cardinality(ALSGain) - 1) + (Cardinality(ALSIntegrationTime) - 1)

\* A step that is one pass of calibrate's loop (an adjustment and its refresh).
IsCalibratePass == pc = "calibrate" /\ pc' = "calibrate" /\ iterations' = iterations + 1

\* C1: calibrate makes at most 3 + 5 = 8 adjustment passes, whatever the
\* starting gain / integration time and whatever words the ALS register
\* answers with, and it never raises.
C1_CalibrateBounded ==
    call.op = "calibrate" => (iterations <= LadderSteps /\ exc = "none")

\* C2: when calibrate has returned, the last sample is classified SWEET, or
\* it is above 10000 with gain and integration time both at their minimum,
\* or below 100 with both at their maximum.
C2_ReturnsSweetOrBoundary ==
    (call.op = "calibrate" /\ pc = "idle") =>
        \/ sampling_performance(Self(0)) = SWEET
        \/ _als_output > 10000 /\ Gain = MIN_GAIN /\ Time = MIN_INTEGRATION_TIME
        \/ _als_output < 100 /\ Gain = MAX_GAIN /\ Time = MAX_INTEGRATION_TIME

\* C2's case: calibrate returned, after adjustments, with a sample above
\* 10000 and both settings at their minimum.
C2_Witness ==
    /\ call.op = "calibrate" /\ pc = "idle" /\ iterations > 0
    /\ _als_output > 10000 /\ Gain = MIN_GAIN /\ Time = MIN_INTEGRATION_TIME

\* C3: every pass of calibrate follows the priority order.  On UPPER_END:
\* halve the integration time while it is above 100 ms, else lower the gain
\* while it is above 1/8, else halve the integration time; on LOWER_END:
\* double the integration time while it is below 100 ms, else raise the gain
\* while it is below 2, else double the integration time.  So the gain is
\* never lowered above 100 ms nor raised below 100 ms, and the integration
\* time leaves 100 ms only with the gain at its limit in that direction.
C3_PriorityOrder ==
    [][IsCalibratePass =>
        /\ sampling_performance(Self(0)) = UPPER_END =>
              IF Time > ms(100) THEN TimeNext * 2 = Time /\ GainNext = Gain
              ELSE IF Gain > MIN_GAIN THEN GainNext < Gain /\ TimeNext = Time
              ELSE TimeNext * 2 = Time /\ GainNext = Gain
        /\ sampling_performance(Self(0)) = LOWER_END =>
              IF Time < ms(100) THEN TimeNext = Time * 2 /\ GainNext = Gain
              ELSE IF Gain < MAX_GAIN THEN GainNext > Gain /\ TimeNext = Time
              ELSE TimeNext = Time * 2 /\ GainNext = Gain
        /\ GainNext < Gain => Time <= ms(100)
        /\ GainNext > Gain => Time >= ms(100)
        /\ (Time >= ms(100) /\ TimeNext < ms(100)) => Gain = MIN_GAIN
        /\ (Time <= ms(100) /\ TimeNext > ms(100)) => Gain = MAX_GAIN
      ]_vars

\* C3's case: a call that began at gain 1, 400 ms has made five passes
\* downwards: 200 ms, 100 ms, gain 1/4, gain 1/8, and only then 50 ms.
C3_Witness ==
    /\ pc = "calibrate" /\ start = <<8, ms(400)>> /\ iterations = 5
    /\ Gain = MIN_GAIN /\ Time = ms(50)

\* C4 (as claimed): from gain 1, 100 ms with the sample 50, the first
\* adjustment raises the integration time to 200 ms; while samples stay
\* LOWER_END the gain is raised only once the integration time is 800 ms.
C4_TimeBeforeGain ==
    [][IsCalibratePass =>
        /\ (iterations = 0 /\ Gain = 8 /\ Time = ms(100) /\ _als_output = 50) =>
              (TimeNext = ms(200) /\ GainNext = Gain)
        /\ (sampling_performance(Self(0)) = LOWER_END /\ GainNext > Gain) =>
              Time = ms(800)
      ]_vars

\* C4 (amended): from gain 1, 100 ms with the sample 50, the first
\* adjustment raises the gain to 2 and leaves the integration time at 100 ms,
\* and one more ALS sample is read; while samples stay LOWER_END each further
\* pass doubles the integration time (200, 400, 800 ms) with the gain at 2:
\* the integration time is raised above 100 ms only once the gain is 2.
C4_GainBeforeTime ==
    [][IsCalibratePass =>
        /\ (iterations = 0 /\ Gain = 8 /\ Time = ms(100) /\ _als_output = 50) =>
              (GainNext = 16 /\ TimeNext = Time /\ samples' = samples + 1)
        /\ (sampling_performance(Self(0)) = LOWER_END /\ Gain = 16 /\ Time >= ms(100)) =>
              (TimeNext = Time * 2 /\ GainNext = Gain /\ samples' = samples + 1)
        /\ (sampling_performance(Self(0)) = LOWER_END /\ Time >= ms(100) /\ TimeNext > Time) =>
              Gain = MAX_GAIN
      ]_vars

\* C4's case: a call that began at gain 1, 100 ms has made four passes and
\* is at gain 2, 800 ms (four passes upwards: every sample was LOWER_END).
C4_Witness ==
    /\ pc = "calibrate" /\ start = <<8, ms(100)>> /\ iterations = 4
    /\ Gain = 16 /\ Time = ms(800)

\* The configuration writes of the latest step all carry the given gain and
\* integration-time members.
ConfigWritesCarry(log, g, t) ==
    \A i \in DOMAIN log :
        (log[i].dir = "WRITE" /\ log[i].code = CODE_CONFIGURATION) =>
            /\ ALSGain_unpack(log[i].payload) = g
            /\ ALSIntegrationTime_unpack(log[i].payload) = t

\* The reads of the ALS output register in a log.
AlsReads(log) ==
    Cardinality({i \in DOMAIN log : log[i].dir = "READ" /\ log[i].code = CODE_ALS_OUTPUT})

\* C5: with gain 1/8 and integration time 25 ms, a calibrate whose sample is
\* 20000 makes no adjustment: its first refresh reads the ALS register once
\* and writes no other gain or integration time, and its next step is the
\* return, with gain and integration time unchanged and nothing written.
C5_NoAdjustmentAtMinimum ==
    [][/\ (pc = "idle" /\ pc' = "calibrate" /\ Gain = MIN_GAIN
            /\ Time = MIN_INTEGRATION_TIME /\ _als_output' = 20000) =>
              /\ _gain' = _gain /\ _integration_time' = _integration_time
              /\ ConfigWritesCarry(busLog', _gain, _integration_time)
              /\ AlsReads(busLog') = 1 /\ samples' = 1 /\ iterations' = 0
       /\ (pc = "calibrate" /\ iterations = 0 /\ Gain = MIN_GAIN
            /\ Time = MIN_INTEGRATION_TIME /\ _als_output = 20000) =>
              /\ pc' = "idle" /\ busLog' = <<>>
              /\ _gain' = _gain /\ _integration_time' = _integration_time
              /\ samples' = 1 /\ iterations' = 0
      ]_vars

\* C5's case: calibrate has returned from gain 1/8, 25 ms with the sample 20000.
C5_Witness ==
    /\ call.op = "calibrate" /\ pc = "idle" /\ start = <<MIN_GAIN, MIN_INTEGRATION_TIME>>
    /\ _als_output = 20000 /\ iterations = 0 /\ samples = 1
    /\ Gain = MIN_GAIN /\ Time = MIN_INTEGRATION_TIME

-----------------------------------------------------------------------------
(* The classification of a sample (under SpecClassify) *)

\* The object after any setters and a sample: every gain, every integration
\* time and every 16-bit ALS word.
InitClassify ==
    /\ _gain \in ALSGain
    /\ _integration_time \in ALSIntegrationTime
    /\ _als_output \in 0..MAX_OUTPUT
    /\ _persistence = PERS_1
    /\ _interrupt = INT_DISABLE
    /\ _shutdown = POWER_ON
    /\ _power_saving_mode = PSM_ONE
    /\ _power_saving = PSM_DISABLE
    /\ _low_threshold = None
    /\ _high_threshold = None
    /\ _white_output = None
    /\ _threshold_event = None
    /\ regs = [c \in CODE_CONFIGURATION..CODE_POWER_SAVING |-> None]
    /\ busLog = <<>>
    /\ exc = "none"
    /\ ret = <<>>
    /\ call = [op |-> "refresh", arg |-> None]
    /\ faults = 0
    /\ int_status = 0
    /\ pc = "idle"
    /\ iterations = 0
    /\ samples = 0
    /\ start = <<>>

NextClassify == GetSamplingPerformance

SpecClassify == InitClassify /\ [][NextClassify]_vars

\* The classification as the specification words it, on a raw count, a gain
\* (in eighths) and an integration time (in thousandths of a millisecond).
ReferencePerformance(raw, g, t) ==
    IF raw < 100 /\ (g < 16 \/ t < ms(800)) THEN "lower_end"
    ELSE IF raw > 10000 /\ (g > 1 \/ t > ms(25)) THEN "upper_end"
    ELSE "sweet"

\* C6: for every raw count 0..65535 and each of the 4 x 6 gain / integration
\* time pairs the getter raises nothing and answers LOWER_END iff raw < 100
\* and (gain < 2 or time < 800), else UPPER_END iff raw > 10000 and
\* (gain > 1/8 or time > 25), else SWEET.
C6_ClassificationMatchesReference ==
    call.op = "sampling_performance" =>
        /\ exc = "none"
        /\ ret = <<ReferencePerformance(_als_output, Gain, Time)>>

\* C6's case: the getter answered UPPER_END for the largest count with the
\* gain at its minimum and only the integration time above its minimum.
C6_Witness ==
    /\ call.op = "sampling_performance" /\ ret = <<UPPER_END>>
    /\ _als_output = MAX_OUTPUT /\ Gain = MIN_GAIN /\ Time = ms(50)

-----------------------------------------------------------------------------
(* Properties of the setters (under Spec and SpecFault) *)

\* The Device State: every field of the controller object.
DeviceState ==
    <<_gain, _integration_time, _persistence, _interrupt, _shutdown,
      _power_saving_mode, _power_saving, _low_threshold, _high_threshold,
      _als_output, _white_output, _threshold_event>>

\* The step is a setter call whose argument is the value the field holds.
SetsCurrentValue ==
    \/ call'.op = "gain" /\ call'.arg = Gain
    \/ call'.op = "integration_time" /\ call'.arg = Time
    \/ call'.op = "persistence" /\ call'.arg = ALSPersistence_friendly_value(_persistence)
    \/ call'.op = "threshold_enabled"
         /\ call'.arg = (IF ALSInterrupt_friendly_value(_interrupt) THEN "True" ELSE "False")
    \/ call'.op = "power_status" /\ call'.arg = power_status(Self(0))
    \/ call'.op = "threshold_low" /\ call'.arg = _low_threshold
    \/ call'.op = "threshold_high" /\ call'.arg = _high_threshold

DefinedGains == {1, 2, 8, 16}
DefinedTimes == {ms(25), ms(50), ms(100), ms(200), ms(400), ms(800), 25, 50, 100, 200, 400, 800}
DefinedPersistences == {1, 2, 4, 8}
DefinedBools == {"True", "False"}

\* The step is a call of a configuration-field setter with a defined value
\* other than the one the field holds.
ChangesConfigurationField ==
    \/ call'.op = "gain" /\ call'.arg \in DefinedGains /\ call'.arg # Gain
    \/ call'.op = "integration_time" /\ call'.arg \in DefinedTimes
         /\ call'.arg # Time /\ ms(call'.arg) # Time
    \/ call'.op = "persistence" /\ call'.arg \in DefinedPersistences
         /\ call'.arg # ALSPersistence_friendly_value(_persistence)
    \/ call'.op = "threshold_enabled" /\ call'.arg \in DefinedBools
         /\ (call'.arg = "True") # ALSInterrupt_friendly_value(_interrupt)

\* The field a configuration payload carries for the setter op is the value
\* assigned; every other field is the stored one.
PayloadCarries(p, op, arg) ==
    /\ ALSGain_friendly_value(unpack(p, 11, 2)) = (IF op = "gain" THEN arg ELSE Gain)
    /\ ALSIntegrationTime_friendly_value(unpack(p, 6, 4))
         = (IF op = "integration_time" THEN (IF arg < ms(1) THEN ms(arg) ELSE arg) ELSE Time)
    /\ ALSPersistence_friendly_value(unpack(p, 4, 2))
         = (IF op = "persistence" THEN arg ELSE ALSPersistence_friendly_value(_persistence))
    /\ (unpack(p, 1, 1) = 1)
         = (IF op = "threshold_enabled" THEN arg = "True"
            ELSE ALSInterrupt_friendly_value(_interrupt))
    /\ (unpack(p, 0, 1) = 1) = ALSShutdown_friendly_value(_shutdown)

\* C8: a configuration-field setter (gain, integration_time, persistence,
\* threshold_enabled) called with a defined value other than the current one
\* issues exactly one bus transaction, a write to 0x00, whose payload decodes
\* (gain 12:11, integration time 9:6, persistence 5:4, interrupt enable 1,
\* shutdown 0) to the new value of that field and the stored values of the
\* other four.
C8_OneWriteOfAllFields ==
    [][ChangesConfigurationField =>
          /\ exc' = "none"
          /\ Len(busLog') = 1
          /\ busLog'[1].dir = "WRITE"
          /\ busLog'[1].code = 0
          /\ busLog'[1].payload < 65536
          /\ PayloadCarries(busLog'[1].payload, call'.op, call'.arg)
      ]_vars

\* C8's case: integration_time was set to 25 ms (code 1100) on an object
\* with gain 1/8, persistence 4 and the interrupt enabled, by one write.
C8_Witness ==
    /\ call.op = "integration_time" /\ call.arg = ms(25) /\ Len(busLog) = 1
    /\ _integration_time = IT_25MS /\ _gain = GAIN_EIGTH
    /\ _persistence = PERS_4 /\ _interrupt = INT_ENABLE

\* The property setters.
SetterOps ==
    {"gain", "integration_time", "persistence", "threshold_enabled", "power_status",
     "threshold_low", "threshold_high"}

\* C9: when the bus write of a setter fails with a transport error, the
\* Device State after the call is the Device State before it.
C9_FailedWriteLeavesState ==
    [][(call'.op \in SetterOps /\ exc' = "TransportError") =>
          DeviceState' = DeviceState]_vars

\* The step is a setter call with a value that maps to no enumerator.
SetsUndefinedValue ==
    \/ call'.op = "gain" /\ call'.arg \notin DefinedGains
    \/ call'.op = "integration_time" /\ call'.arg \notin DefinedTimes
    \/ call'.op = "persistence" /\ call'.arg \notin DefinedPersistences
    \/ call'.op = "threshold_enabled" /\ call'.arg \notin DefinedBools
    \/ call'.op = "power_status" /\ call'.arg \notin 0..5

\* C10: a setter of gain, integration_time, persistence, threshold_enabled
\* or power_status called with a value that maps to no defined enumerator
\* raises ValueError with no bus transaction issued and every field of the
\* Device State unchanged.
C10_InvalidValueRejected ==
    [][SetsUndefinedValue =>
          (exc' = "ValueError" /\ busLog' = <<>> /\ regs' = regs
           /\ DeviceState' = DeviceState)]_vars

\* C10's case: power_status was assigned the undefined 6 on an object whose
\* registers had been written, and the call raised ValueError.
C10_Witness ==
    /\ call.op = "power_status" /\ call.arg = 6 /\ exc = "ValueError"
    /\ busLog = <<>> /\ regs[CODE_CONFIGURATION] # None /\ _gain # GAIN_UNIT

-----------------------------------------------------------------------------
(* Properties of power_status (under SpecPower) *)

\* C11: after a successful power_status := s, for each of the six statuses:
\* PWR_ON leaves shutdown false and power saving disabled; PWR_OFF leaves
\* shutdown true and power saving disabled; PWR_SAVE_n leaves shutdown false
\* and power saving enabled with mode n; and the getter answers s.
C11_PowerStatusAssigned ==
    (call.op = "power_status" /\ call.arg \in PowerStatus /\ exc = "none") =>
        /\ call.arg = PWR_ON =>
              (~ALSShutdown_friendly_value(_shutdown)
               /\ ~PowerSavingToggle_friendly_value(_power_saving))
        /\ call.arg = PWR_OFF =>
              (ALSShutdown_friendly_value(_shutdown)
               /\ ~PowerSavingToggle_friendly_value(_power_saving))
        /\ call.arg \in PWR_SAVE_1..PWR_SAVE_4 =>
              (~ALSShutdown_friendly_value(_shutdown)
               /\ PowerSavingToggle_friendly_value(_power_saving)
               /\ PowerSavingMode_friendly_value(_power_saving_mode) = call.arg)
        /\ power_status(Self(0)) = call.arg

\* C11's case: PWR_OFF was assigned while power saving was enabled in mode 4,
\* by a write of each register.
C11_Witness ==
    /\ call.op = "power_status" /\ call.arg = PWR_OFF /\ exc = "none"
    /\ power_status(Self(0)) = PWR_OFF /\ _power_saving_mode = PSM_FOUR
    /\ Len(busLog) = 2

\* The writes to the register code in a log.
WritesTo(log, code) ==
    Cardinality({i \in DOMAIN log : log[i].dir = "WRITE" /\ log[i].code = code})

\* C12: a power_status assignment issues at most two bus transactions, all
\* writes: one to the configuration register 0x00 iff the shutdown flag
\* changes, one to the power-saving register 0x03 iff the power-saving enable
\* or mode changes, and none to any other register.
C12_WritesOnlyWhatChanges ==
    [][call'.op = "power_status" =>
          /\ Len(busLog') <= 2
          /\ \A i \in DOMAIN busLog' :
                busLog'[i].dir = "WRITE"
                /\ busLog'[i].code \in {CODE_CONFIGURATION, CODE_POWER_SAVING}
          /\ WritesTo(busLog', CODE_CONFIGURATION) = (IF _shutdown' # _shutdown THEN 1 ELSE 0)
          /\ WritesTo(busLog', CODE_POWER_SAVING)
                = (IF _power_saving' # _power_saving \/ _power_saving_mode' # _power_saving_mode
                   THEN 1 ELSE 0)
      ]_vars

\* C12's case: PWR_SAVE_2 was assigned to a device that was off: the
\* configuration register was written, then the power-saving register.
C12_Witness ==
    /\ call.op = "power_status" /\ call.arg = PWR_SAVE_2 /\ Len(busLog) = 2
    /\ busLog[1].code = CODE_CONFIGURATION /\ busLog[2].code = CODE_POWER_SAVING

-----------------------------------------------------------------------------
(* Properties of sampling (under SpecSample) *)

\* C13: refresh with both flags false performs no bus operation (no read and
\* no write) and returns nothing, whatever the power status.
C13_NoFlagsNoBus ==
    [][(call'.op = "refresh" /\ ~call'.arg[1] /\ ~call'.arg[2]) =>
          (busLog' = <<>> /\ ret' = <<>>)]_vars

\* The reads of the register code in a log.
ReadsOf(log, code) ==
    Cardinality({i \in DOMAIN log : log[i].dir = "READ" /\ log[i].code = code})

\* C14: _als_output and _white_output change only in refresh: no setter,
\* adjustment primitive, power_status assignment or poll_threshold_event
\* changes either; and a refresh reads 0x04 exactly once iff refresh_output
\* and 0x05 exactly once iff refresh_white_output, reads no other register,
\* stores the word read in the field whose flag is set and leaves the other
\* output field as it was.
C14_OutputsChangeOnlyBySample ==
    [][/\ call'.op # "refresh" =>
            (_als_output' = _als_output /\ _white_output' = _white_output)
       /\ call'.op = "refresh" =>
            /\ ReadsOf(busLog', CODE_ALS_OUTPUT) = (IF call'.arg[1] THEN 1 ELSE 0)
            /\ ReadsOf(busLog', CODE_WHITE_OUTPUT) = (IF call'.arg[2] THEN 1 ELSE 0)
            /\ \A i \in DOMAIN busLog' :
                  busLog'[i].dir = "READ" =>
                      busLog'[i].code \in {CODE_ALS_OUTPUT, CODE_WHITE_OUTPUT}
            /\ _als_output' = (IF call'.arg[1] THEN ret'[1] ELSE _als_output)
            /\ _white_output' = (IF call'.arg[2] THEN ret'[Len(ret')] ELSE _white_output)
      ]_vars

\* C14's case: a refresh of the white channel alone, without a power cycle,
\* after an ALS sample: one read, and the ALS output is the earlier one.
C14_Witness ==
    /\ call.op = "refresh" /\ call.arg = <<FALSE, TRUE, FALSE>>
    /\ _als_output = 20000 /\ _white_output = 300
    /\ Len(busLog) = 1 /\ busLog[1].code = CODE_WHITE_OUTPUT

-----------------------------------------------------------------------------
(* Properties of the adjustment primitives (under SpecAdjust) *)

\* The step is a call of a primitive whose setting is not at its boundary.
AdjustsInside ==
    \/ call'.op = "increase_gain" /\ Gain < MAX_GAIN
    \/ call'.op = "decrease_gain" /\ Gain > MIN_GAIN
    \/ call'.op = "increase_integration_time" /\ Time < MAX_INTEGRATION_TIME
    \/ call'.op = "decrease_integration_time" /\ Time > MIN_INTEGRATION_TIME

\* C15 (as claimed): a primitive not at its boundary replaces its setting by
\* exactly twice (increase) or exactly half (decrease) the current value.
C15_DoublesOrHalves ==
    [][AdjustsInside =>
          /\ call'.op = "increase_gain" => GainNext = 2 * Gain
          /\ call'.op = "decrease_gain" => 2 * GainNext = Gain
          /\ call'.op = "increase_integration_time" => TimeNext = 2 * Time
          /\ call'.op = "decrease_integration_time" => 2 * TimeNext = Time
      ]_vars

\* The defined gain next above / below a defined gain (in eighths).
GainAbove(g) == CASE g = 1 -> 2 [] g = 2 -> 8 [] g = 8 -> 16
GainBelow(g) == CASE g = 16 -> 8 [] g = 8 -> 2 [] g = 2 -> 1

\* C15 (amended): a primitive not at its boundary makes one step along its
\* ladder, by one write of the configuration register and without raising:
\* the integration time becomes exactly twice / half its value; the gain
\* becomes the next defined gain above / below (1/8, 1/4, 1, 2), which is
\* twice / half its value except between 1/4 and 1, where the undefined 1/2
\* is skipped and the factor is four; the other setting is unchanged.
C15_LadderStep ==
    [][AdjustsInside =>
          /\ exc' = "none" /\ Len(busLog') = 1
          /\ call'.op = "increase_gain" =>
                /\ GainNext = GainAbove(Gain) /\ TimeNext = Time
                /\ GainNext = (IF Gain = 2 THEN 4 * Gain ELSE 2 * Gain)
          /\ call'.op = "decrease_gain" =>
                /\ GainNext = GainBelow(Gain) /\ TimeNext = Time
                /\ Gain = (IF Gain = 8 THEN 4 * GainNext ELSE 2 * GainNext)
          /\ call'.op = "increase_integration_time" =>
                (TimeNext = 2 * Time /\ GainNext = Gain)
          /\ call'.op = "decrease_integration_time" =>
                (2 * TimeNext = Time /\ GainNext = Gain)
      ]_vars

\* C15's case: decrease_gain wrote the register and left the gain at 1/4,
\* so it was called at gain 1 (whose half, 1/2, is not a gain).
C15_Witness ==
    /\ call.op = "decrease_gain" /\ Gain = 2 /\ Len(busLog) = 1 /\ exc = "none"

\* The step is a call of a primitive whose setting is at its boundary.
AdjustsAtBoundary ==
    \/ call'.op = "increase_gain" /\ Gain = MAX_GAIN
    \/ call'.op = "decrease_gain" /\ Gain = MIN_GAIN
    \/ call'.op = "increase_integration_time" /\ Time = MAX_INTEGRATION_TIME
    \/ call'.op = "decrease_integration_time" /\ Time = MIN_INTEGRATION_TIME

\* C16: increase_gain at gain 2, decrease_gain at gain 1/8,
\* increase_integration_time at 800 ms and decrease_integration_time at 25 ms
\* leave every field of the Device State unchanged, issue no bus transaction
\* and raise nothing.
C16_NoOpAtBoundary ==
    [][AdjustsAtBoundary =>
          (DeviceState' = DeviceState /\ busLog' = <<>> /\ regs' = regs /\ exc' = "none")]_vars

\* C16's case: increase_integration_time was called at 800 ms (a call from
\* 400 ms would have written the register) with the gain at 1/8.
C16_Witness ==
    /\ call.op = "increase_integration_time" /\ Time = MAX_INTEGRATION_TIME
    /\ busLog = <<>> /\ exc = "none" /\ Gain = MIN_GAIN

-----------------------------------------------------------------------------
(* poll_threshold_event on every status word (under SpecPoll) *)

\* The object with the interrupt disabled or enabled, before any poll or
\* after one that stored LOW, and a device whose status register holds any
\* 16-bit word.
InitPoll ==
    /\ _gain = GAIN_UNIT
    /\ _integration_time = IT_100MS
    /\ _persistence = PERS_1
    /\ _interrupt \in ALSInterrupt
    /\ _shutdown = POWER_ON
    /\ _power_saving_mode = PSM_ONE
    /\ _power_saving = PSM_DISABLE
    /\ _low_threshold = None
    /\ _high_threshold = None
    /\ _als_output = None
    /\ _white_output = None
    /\ _threshold_event \in {None, EVENT_LOW}
    /\ regs = [c \in CODE_CONFIGURATION..CODE_POWER_SAVING |->
                 IF c = CODE_CONFIGURATION /\ (_interrupt = INT_ENABLE \/ _threshold_event # None)
                 THEN cmd_set_configuration_register(_gain, _integration_time, _persistence,
                                                     _interrupt, _shutdown)
                 ELSE None]
    /\ int_status \in 0..MAX_OUTPUT
    /\ busLog = <<>>
    /\ exc = "none"
    /\ ret = <<>>
    /\ call = [op |-> "threshold_enabled",
               arg |-> IF _interrupt = INT_ENABLE THEN "True" ELSE "False"]
    /\ faults = 0
    /\ pc = "idle"
    /\ iterations = 0
    /\ samples = 0
    /\ start = <<>>

\* The poll reads the word the status register holds.
NextPoll == PollThresholdEvent(int_status)

SpecPoll == InitPoll /\ [][NextPoll]_vars

\* C17: poll_threshold_event with interrupts disabled returns None (not
\* ThresholdEvent.NONE), issues no bus transaction and leaves the stored
\* threshold event as it was.
C17_DisabledPollTouchesNothing ==
    [][(call'.op = "poll_threshold_event" /\ ~threshold_enabled(Self(0))) =>
          /\ ret' = <<>> /\ ret' # <<EVENT_NONE>>
          /\ busLog' = <<>>
          /\ _threshold_event' = _threshold_event
          /\ exc' = "none"
      ]_vars

\* C17's case: a poll with interrupts disabled, while the status register
\* holds both flags and the stored event is LOW, returned None.
C17_Witness ==
    /\ call.op = "poll_threshold_event" /\ _interrupt = INT_DISABLE
    /\ int_status = MAX_OUTPUT /\ _threshold_event = EVENT_LOW
    /\ ret = <<>> /\ busLog = <<>>

\* The event the bits 15:14 of a status word stand for.
ReferenceEvent(word) ==
    CASE word \div 16384 = 0 -> EVENT_NONE
      [] word \div 16384 = 2 -> EVENT_LOW
      [] word \div 16384 = 1 -> EVENT_HIGH
      [] word \div 16384 = 3 -> EVENT_BOTH

\* C18: poll_threshold_event with interrupts enabled issues exactly one bus
\* transaction, a read of 0x06, and for every 16-bit status word stores and
\* returns the event of its bits 15:14 (00 NONE, 10 LOW, 01 HIGH, 11 BOTH),
\* whatever the low 14 bits.
C18_EnabledPollDecodesStatus ==
    (call.op = "poll_threshold_event" /\ threshold_enabled(Self(0))) =>
        /\ exc = "none"
        /\ busLog = <<[dir |-> "READ", code |-> 6, payload |-> int_status]>>
        /\ _threshold_event = ReferenceEvent(int_status)
        /\ ret = <<_threshold_event>>

\* C18's case: the status word 10 11111111111111 was read and LOW (not BOTH)
\* stored and returned.
C18_Witness ==
    /\ call.op = "poll_threshold_event" /\ _interrupt = INT_ENABLE
    /\ int_status = 32768 + 16383 /\ ret = <<EVENT_LOW>> /\ Len(busLog) = 1

-----------------------------------------------------------------------------
(* Properties of the register codec (under SpecCodec) *)

\* The physical values that are integration times in milliseconds.
DefinedMilliseconds == {ms(25), ms(50), ms(100), ms(200), ms(400), ms(800)}

\* C19: for the stored gain, integration-time and persistence member e,
\* encode(e) is (code & mask) << offset with (offset, width) = (11, 2),
\* (6, 4), (4, 2) and decode(encode(e)) = e, for the field alone and in the
\* payload written to register 0x00 (so 1100, 1000, 0000, 0001, 0010, 0011
\* survive the 4-bit mask); and a defined physical value handed to a setter
\* is accepted and is the friendly value of the member stored, which parses
\* back to that member.
C19_CodecRoundTrip ==
    /\ ALSGain_pack(_gain) = (_gain % 4) * 2048
    /\ ALSIntegrationTime_pack(_integration_time) = (_integration_time % 16) * 64
    /\ ALSPersistence_pack(_persistence) = (_persistence % 4) * 16
    /\ ALSGain_unpack(ALSGain_pack(_gain)) = _gain
    /\ ALSIntegrationTime_unpack(ALSIntegrationTime_pack(_integration_time)) = _integration_time
    /\ ALSPersistence_unpack(ALSPersistence_pack(_persistence)) = _persistence
    /\ regs[CODE_CONFIGURATION] # None =>
          /\ ALSGain_unpack(regs[CODE_CONFIGURATION]) = _gain
          /\ ALSIntegrationTime_unpack(regs[CODE_CONFIGURATION]) = _integration_time
          /\ ALSPersistence_unpack(regs[CODE_CONFIGURATION]) = _persistence
    /\ ALSGain_parse(ALSGain_friendly_value(_gain)) = _gain
    /\ ALSIntegrationTime_parse(ALSIntegrationTime_friendly_value(_integration_time))
          = _integration_time
    /\ ALSPersistence_parse(ALSPersistence_friendly_value(_persistence)) = _persistence
    /\ (call.op = "gain" /\ call.arg \in DefinedGains) =>
          (exc = "none" /\ ALSGain_friendly_value(_gain) = call.arg)
    /\ (call.op = "integration_time" /\ call.arg \in DefinedMilliseconds) =>
          (exc = "none" /\ ALSIntegrationTime_friendly_value(_integration_time) = call.arg)
    /\ (call.op = "persistence" /\ call.arg \in DefinedPersistences) =>
          (exc = "none" /\ ALSPersistence_friendly_value(_persistence) = call.arg)

\* C19's case: 25 ms (code 1100) was assigned with gain 1/8 (code 11) and
\* persistence 8 (code 11) stored, and the payload written holds all three.
C19_Witness ==
    /\ call.op = "integration_time" /\ call.arg = ms(25) /\ exc = "none"
    /\ _gain = GAIN_EIGTH /\ _persistence = PERS_8
    /\ regs[CODE_CONFIGURATION] = 3 * 2048 + 12 * 64 + 3 * 16

-----------------------------------------------------------------------------
(* Properties of lux_resolution (under SpecResolution) *)

\* C20 (as claimed): at 800 ms lux_resolution is MAX_RESOLUTION_LUX at
\* gain 1 (scale 1) and half of it at gain 2.
C20_FinestAtUnitGain ==
    (call.op = "lux_resolution" /\ Time = ms(800)) =>
        /\ Gain = 8 => ret = <<MAX_RESOLUTION_LUX>>
        /\ Gain = 16 => ret = <<MAX_RESOLUTION_LUX \div 2>>

\* C20 (amended): at 800 ms the integer scale applied to MAX_RESOLUTION_LUX
\* is 1 at gain 2, where lux_resolution is MAX_RESOLUTION_LUX exactly, and 2
\* at gain 1, where it is twice that.
C20_FinestAtMaxGain ==
    (call.op = "lux_resolution" /\ Time = ms(800)) =>
        /\ exc = "none"
        /\ Gain = 16 => ret = <<MAX_RESOLUTION_LUX>>
        /\ Gain = 8 => ret = <<2 * MAX_RESOLUTION_LUX>>

\* C20's case: lux_resolution was read at gain 1, 800 ms and is twice
\* MAX_RESOLUTION_LUX.
C20_Witness ==
    /\ call.op = "lux_resolution" /\ Gain = 8 /\ Time = ms(800)
    /\ ret = <<2 * MAX_RESOLUTION_LUX>>

-----------------------------------------------------------------------------
(* Properties of calibrate's sampling and direction (under SpecCalibrate) *)

\* The latest step ended with a read of the ALS register, after every write
\* of the step, and the word read is the one _als_output holds.
SampledLast(log, word) ==
    /\ log # <<>>
    /\ log[Len(log)] = [dir |-> "READ", code |-> CODE_ALS_OUTPUT, payload |-> word]

\* C21: inside calibrate every classification is made on a fresh sample.  The
\* first refresh reads 0x04 exactly once; every pass of the loop changes the
\* gain or the integration time and then reads 0x04 exactly once, after its
\* writes; the return reads nothing.  So the ALS reads of a call are 1 + its
\* adjustments, and while the loop runs the word classified is the one read
\* last, with the device configured at the current gain and integration time.
C21_FreshSamplePerClassification ==
    /\ [](call.op = "calibrate" => samples = 1 + iterations)
    /\ [](pc = "calibrate" =>
            /\ SampledLast(busLog, _als_output)
            /\ ConfigWritesCarry(busLog, _gain, _integration_time))
    /\ [][/\ (pc = "idle" /\ pc' = "calibrate") =>
              /\ AlsReads(busLog') = 1
              /\ <<_gain', _integration_time'>> = <<_gain, _integration_time>>
          /\ IsCalibratePass =>
              /\ AlsReads(busLog') = 1
              /\ <<_gain', _integration_time'>> # <<_gain, _integration_time>>
          /\ (pc = "calibrate" /\ pc' = "idle") =>
              /\ busLog' = <<>>
              /\ UNCHANGED <<_gain, _integration_time, _als_output, samples>>
         ]_vars

\* C21's case: a calibrate call has returned after two adjustments and
\* three ALS reads.
C21_Witness ==
    /\ call.op = "calibrate" /\ pc = "idle"
    /\ iterations = 2 /\ samples = 3

\* (under SpecSteady)

\* One step up / down one of the two ladders, the other setting unchanged.
OneStepUp ==
    \/ Gain < MAX_GAIN /\ GainNext = GainAbove(Gain) /\ TimeNext = Time
    \/ TimeNext = 2 * Time /\ GainNext = Gain

OneStepDown ==
    \/ Gain > MIN_GAIN /\ GainNext = GainBelow(Gain) /\ TimeNext = Time
    \/ 2 * TimeNext = Time /\ GainNext = Gain

\* C22: in a calibrate call whose samples all read below 100, every pass of
\* the loop moves exactly one of gain / integration time one ladder step up
\* and none down, the call makes at most 3 + 5 = 8 adjustments and returns
\* with gain 2 and 800 ms; with samples all above 10000 every pass moves one
\* setting one step down, and the call returns with gain 1/8 and 25 ms.
C22_SteadyLightMovesOneWay ==
    /\ [](call.op = "calibrate" => (iterations <= LadderSteps /\ exc = "none"))
    /\ []((call.op = "calibrate" /\ pc = "idle") =>
            /\ _als_output < 100 => (Gain = MAX_GAIN /\ Time = MAX_INTEGRATION_TIME)
            /\ _als_output > 10000 => (Gain = MIN_GAIN /\ Time = MIN_INTEGRATION_TIME))
    /\ [][IsCalibratePass =>
              /\ _als_output < 100 => OneStepUp
              /\ _als_output > 10000 => OneStepDown
         ]_vars

\* C22's case: a call that began at gain 1/8, 25 ms under samples below 100
\* has returned after 8 adjustments, at gain 2, 800 ms.
C22_Witness ==
    /\ call.op = "calibrate" /\ pc = "idle" /\ start = <<MIN_GAIN, MIN_INTEGRATION_TIME>>
    /\ _als_output < 100 /\ iterations = LadderSteps
    /\ Gain = MAX_GAIN /\ Time = MAX_INTEGRATION_TIME

-----------------------------------------------------------------------------
(* The power status after a sample (under SpecWake) *)

\* The log holds no write.
NoWrite(log) == \A i \in DOMAIN log : log[i].dir # "WRITE"

\* C23: once refresh or calibrate has sampled, the power status is not
\* PWR_OFF.  A refresh of a shut-down device, with cycle_power false too,
\* clears the shutdown flag and writes the configuration register (once,
\* with the shutdown bit clear) and nothing else; a refresh in a
\* power-saving status leaves the shutdown and power-saving fields alone and
\* writes nothing.
C23_SampleLeavesDeviceAwake ==
    /\ []((call.op \in {"refresh", "calibrate"} /\ exc = "none") =>
            power_status(Self(0)) # PWR_OFF)
    /\ [][call'.op = "refresh" =>
              /\ power_status(Self(0)) = PWR_OFF =>
                    /\ exc' = "none"
                    /\ _shutdown' = POWER_ON
                    /\ UNCHANGED <<_power_saving, _power_saving_mode>>
                    /\ WritesTo(busLog', CODE_CONFIGURATION) = 1
                    /\ WritesTo(busLog', CODE_POWER_SAVING) = 0
                    /\ ALSShutdown_unpack(regs'[CODE_CONFIGURATION]) = POWER_ON
              /\ power_status(Self(0)) \notin {PWR_ON, PWR_OFF} =>
                    /\ exc' = "none"
                    /\ UNCHANGED <<_shutdown, _power_saving, _power_saving_mode, regs>>
                    /\ NoWrite(busLog')
         ]_vars

\* C23's case: a refresh with cycle_power false has written the
\* configuration register once and left the device on, so it found the
\* device shut down.
C23_Witness ==
    /\ call.op = "refresh" /\ ~call.arg[3]
    /\ WritesTo(busLog, CODE_CONFIGURATION) = 1
    /\ power_status(Self(0)) = PWR_ON

\* C24: the shutdown flag and the power-saving enable flag are never both
\* set, so whenever the getter answers PWR_OFF power saving is disabled; and
\* the shutdown bit last written to register 0x00 and the enable bit last
\* written to 0x03 are never both set either.
C24_NeverShutdownAndSaving ==
    /\ ~(_shutdown = SHUTDOWN /\ _power_saving = PSM_ENABLE)
    /\ power_status(Self(0)) = PWR_OFF => _power_saving = PSM_DISABLE
    /\ (regs[CODE_CONFIGURATION] # None /\ regs[CODE_POWER_SAVING] # None) =>
          ~(/\ ALSShutdown_unpack(regs[CODE_CONFIGURATION]) = SHUTDOWN
            /\ PowerSavingToggle_unpack(regs[CODE_POWER_SAVING]) = PSM_ENABLE)

\* C24's case: power_status = PWR_OFF was assigned in power-saving mode 3;
\* the assignment set the shutdown flag and disabled power saving with a
\* write of register 0x03.
C24_Witness ==
    /\ call = [op |-> "power_status", arg |-> PWR_OFF]
    /\ _shutdown = SHUTDOWN /\ _power_saving = PSM_DISABLE
    /\ _power_saving_mode = PSM_THREE
    /\ WritesTo(busLog, CODE_POWER_SAVING) = 1

-----------------------------------------------------------------------------
(* The device's registers against the Device State (under SpecPublic) *)

\* The words the Device State encodes to: register 0x00 with gain at bits
\* 12:11, integration time at 9:6, persistence at 5:4, interrupt enable at 1
\* and shutdown at 0; register 0x03 with the mode at 2:1 and enable at 0.
ShadowConfiguration ==
    2048 * _gain + 64 * _integration_time + 16 * _persistence
        + 2 * _interrupt + _shutdown

ShadowPowerSaving == 2 * _power_saving_mode + _power_saving

\* C25: every write register that has been written holds the encoding of
\* the current Device State: 0x00 of gain, integration time, persistence,
\* interrupt enable and shutdown, 0x03 of the power-saving mode and enable,
\* 0x01 / 0x02 the low 16 bits of the stored high / low threshold; and the
\* transactions of every operation write only 0x00..0x03 and read only
\* 0x04..0x06.
C25_RegistersShadowState ==
    /\ regs[CODE_CONFIGURATION] # None =>
          regs[CODE_CONFIGURATION] = ShadowConfiguration
    /\ regs[CODE_POWER_SAVING] # None =>
          regs[CODE_POWER_SAVING] = ShadowPowerSaving
    /\ regs[CODE_HIGH_THRESHOLD] # None =>
          (_high_threshold # None /\ regs[CODE_HIGH_THRESHOLD] = _high_threshold % 65536)
    /\ regs[CODE_LOW_THRESHOLD] # None =>
          (_low_threshold # None /\ regs[CODE_LOW_THRESHOLD] = _low_threshold % 65536)
    /\ \A i \in DOMAIN busLog :
          /\ busLog[i].dir = "WRITE" => busLog[i].code \in 0..3
          /\ busLog[i].dir = "READ" => busLog[i].code \in 4..6

\* C25's case: all four registers have been written, the low threshold
\* last with 70000 (whose low 16 bits are 4464), and a calibrate call has
\* moved the gain and the integration time to gain 2, 800 ms in
\* power-saving mode 2.
C25_Witness ==
    /\ \A c \in CODE_CONFIGURATION..CODE_POWER_SAVING : regs[c] # None
    /\ _low_threshold = 70000 /\ regs[CODE_LOW_THRESHOLD] = 4464
    /\ call.op = "calibrate" /\ pc = "idle" /\ iterations > 0
    /\ Gain = MAX_GAIN /\ Time = MAX_INTEGRATION_TIME
    /\ _power_saving = PSM_ENABLE /\ _power_saving_mode = PSM_TWO

=============================================================================
